---- MODULE Spec2Model ----
(* monitor.py: one-shot snapshot of CPU, memory and disk metrics read through *)
(* psutil, assembled into a dict by get_system_health() and printed as JSON.  *)
EXTENDS Integers, Sequences, FiniteSets, TLC

VARIABLES
    host,               \* what the operating system would report right now
    changes,            \* how many times the host's statistics changed during the run
    pc,                 \* the statement of monitor.py the interpreter is at
    disk_io_counters,   \* local of get_system_health (line 18)
    disk_read_bytes,    \* local of get_system_health (line 19)
    disk_write_bytes,   \* local of get_system_health (line 20)
    stack,              \* key/value pairs of the dict display evaluated so far (lines 23-34)
    record,             \* the dict returned by get_system_health (<<>> before the return)
    serialized,         \* the value of json.dumps(...) (<<>> before the call returns)
    stdout,             \* writes made to standard output
    stderr,             \* tracebacks written to standard error
    exitCode,           \* the process's exit status, -1 while it runs
    calls,              \* log of the psutil queries issued, in order
    memSeen,            \* the results of the virtual_memory() calls, in order
    diskSeen            \* the results of the disk_usage('/') calls, in order

vars == <<host, changes, pc, disk_io_counters, disk_read_bytes, disk_write_bytes,
          stack, record, serialized, stdout, stderr, exitCode, calls, memSeen, diskSeen>>

\* ---------------------------------------------------------------- bounds
MaxChanges == 1

\* ---------------------------------------------------------------- the host
CpuSamples == {12, 100}

MemSnapshots ==
    { [total |-> 16, available |-> 8, used |-> 8,  percent |-> 50],
      [total |-> 32, available |-> 0, used |-> 32, percent |-> 100] }

DiskSnapshots ==
    { [total |-> 500, used |-> 250, free |-> 250, percent |-> 50],
      [total |-> 500, used |-> 500, free |-> 0,   percent |-> 100] }

IoSnapshots ==
    { [read_bytes |-> 1000, write_bytes |-> 2000],
      [read_bytes |-> 1001, write_bytes |-> 2002] }

\* ---------------------------------------------------------------- values
Entry(k, kind, n, s) == [key |-> k, kind |-> kind, num |-> n, str |-> s]

IntEntry(k, n) == Entry(k, "int", n, "")

FloatEntry(k, n) == Entry(k, "float", n, "")

StrEntry(k, s) == Entry(k, "str", 0, s)

Call(q, line, result) == [query |-> q, line |-> line, result |-> result]

NoCounters == [isNone |-> TRUE, read_bytes |-> 0, write_bytes |-> 0]

\* ---------------------------------------------------------------- control flow
\* The statement executed after the one at p when p completes normally.
\* The dict display with the disk entries written before the memory entries.
NextLineDiskFirst(p) ==
    CASE p = "L18" -> "L19"
      [] p = "L19" -> "L20"
      [] p = "L20" -> "L23"
      [] p = "L23" -> "L24"
      [] p = "L24" -> "L29"
      [] p = "L29" -> "L30"
      [] p = "L30" -> "L31"
      [] p = "L31" -> "L32"
      [] p = "L32" -> "L25"
      [] p = "L25" -> "L26"
      [] p = "L26" -> "L27"
      [] p = "L27" -> "L28"
      [] p = "L28" -> "L33"
      [] p = "L33" -> "L34"
      [] p = "L34" -> "L22_return"
      [] p = "L22_return" -> "L37_dumps"
      [] p = "L37_dumps" -> "L37_print"
      [] p = "L37_print" -> "exited"
      [] OTHER -> "exited"

NextLine(p) ==
    CASE p = "L18" -> "L19"
      [] p = "L19" -> "L20"
      [] p = "L20" -> "L23"
      [] p = "L23" -> "L24"
      [] p = "L24" -> "L25"
      [] p = "L25" -> "L26"
      [] p = "L26" -> "L27"
      [] p = "L27" -> "L28"
      [] p = "L28" -> "L29"
      [] p = "L29" -> "L30"
      [] p = "L30" -> "L31"
      [] p = "L31" -> "L32"
      [] p = "L32" -> "L33"
      [] p = "L33" -> "L34"
      [] p = "L34" -> "L22_return"
      [] p = "L22_return" -> "L37_dumps"
      [] p = "L37_dumps" -> "L37_print"
      [] p = "L37_print" -> "exited"
      [] OTHER -> "exited"

Init ==
    /\ host \in [cpu : CpuSamples, mem : MemSnapshots, disk : DiskSnapshots, io : IoSnapshots]
    /\ changes = 0
    /\ pc = "L18"
    /\ disk_io_counters = NoCounters
    /\ disk_read_bytes = 0
    /\ disk_write_bytes = 0
    /\ stack = <<>>
    /\ record = <<>>
    /\ serialized = <<>>
    /\ stdout = <<>>
    /\ stderr = <<>>
    /\ exitCode = -1
    /\ calls = <<>>
    /\ memSeen = <<>>
    /\ diskSeen = <<>>

\* ---------------------------------------------------------------- json, print
\* json.dumps(d, indent=4): one member per line in the dict's order, each indented
\* by 4, strings quoted, ints as digits, floats by repr, a comma after every member
\* but the last.
Member(e, last) ==
    [indent |-> 4, key |-> e.key, quoted |-> (e.kind = "str"), kind |-> e.kind,
     num |-> e.num, str |-> e.str, comma |-> ~last]

\* json.dumps(d, indent=4, sort_keys=True): the members in the order of their keys.
SortedKeys ==
    <<"cpu_usage", "disk_free", "disk_percent", "disk_read_bytes", "disk_total",
      "disk_used", "disk_write_bytes", "memory_available", "memory_percent",
      "memory_total", "memory_used", "status">>

json_dumps_sort_keys(d) ==
    [open |-> "{",
     members |-> [i \in 1..Len(d) |->
                    Member(d[CHOOSE j \in 1..Len(d) : d[j].key = SortedKeys[i]], i = Len(d))],
     close |-> "}"]

json_dumps(d) ==
    [open |-> "{",
     members |-> [i \in 1..Len(d) |-> Member(d[i], i = Len(d))],
     close |-> "}"]

\* print(s): the text and the line end go to sys.stdout.
\* A print that writes the blob twice.
print_write_twice(out, s) ==
    Append(Append(out, [text |-> s, end |-> "\n"]), [text |-> s, end |-> "\n"])

print_write(out, s) == Append(out, [text |-> s, end |-> "\n"])

\* ---------------------------------------------------------------- failure
\* psutil raises at a query of line `line`; nothing in monitor.py catches it, so the
\* interpreter prints the traceback (module frame at line 37, then the frame of
\* get_system_health at the raising line) and exits with status 1.

\* A handler around the call of line 37 that reports only that call.
TracebackModuleOnly(line) == <<37>>

Traceback(line) == <<37, line>>

\* A handler that swallows the error and prints what was collected so far.
RaiseThenReportPartial(exc, line) ==
    /\ pc' = "exited"
    /\ exitCode' = 1
    /\ stderr' = Append(stderr, [exc |-> exc, frames |-> Traceback(line)])
    /\ stdout' = print_write(stdout, json_dumps(stack))

Raise(exc, line) ==
    /\ pc' = "exited"
    /\ exitCode' = 1
    /\ stderr' = Append(stderr, [exc |-> exc, frames |-> Traceback(line)])
    /\ stdout' = stdout

\* ---------------------------------------------------------------- line 18
\* A counters query that resets the host's counters as it reads them.
psutil_disk_io_counters_resetting ==
    /\ pc = "L18"
    /\ calls' = Append(calls, Call("disk_io_counters", 18, "ok"))
    /\ disk_io_counters' = [isNone |-> FALSE,
                            read_bytes |-> host.io.read_bytes,
                            write_bytes |-> host.io.write_bytes]
    /\ host' = [host EXCEPT !.io = [read_bytes |-> 0, write_bytes |-> 0]]
    /\ pc' = NextLine(pc)
    /\ UNCHANGED <<changes, disk_read_bytes, disk_write_bytes, stack, record,
                   serialized, memSeen, diskSeen, exitCode, stderr, stdout>>

psutil_disk_io_counters ==
    /\ pc = "L18"
    /\ \E result \in {"ok", "None", "psutil.AccessDenied"} :
         /\ calls' = Append(calls, Call("disk_io_counters", 18, result))
         /\ IF result = "psutil.AccessDenied"
              THEN /\ Raise(result, 18)
                   /\ UNCHANGED disk_io_counters
              ELSE /\ disk_io_counters' =
                        IF result = "None"
                          THEN NoCounters
                          ELSE [isNone |-> FALSE,
                                read_bytes |-> host.io.read_bytes,
                                write_bytes |-> host.io.write_bytes]
                   /\ pc' = NextLine(pc)
                   /\ UNCHANGED <<exitCode, stderr, stdout>>
    /\ UNCHANGED <<host, changes, disk_read_bytes, disk_write_bytes, stack, record,
                   serialized, memSeen, diskSeen>>

\* ---------------------------------------------------------------- line 19
read_bytes_L19 ==
    /\ pc = "L19"
    /\ IF disk_io_counters.isNone
         THEN /\ Raise("AttributeError", 19)
              /\ UNCHANGED disk_read_bytes
         ELSE /\ disk_read_bytes' = disk_io_counters.read_bytes
              /\ pc' = NextLine(pc)
              /\ UNCHANGED <<exitCode, stderr, stdout>>
    /\ UNCHANGED <<host, changes, disk_io_counters, disk_write_bytes, stack, record,
                   serialized, calls, memSeen, diskSeen>>

\* ---------------------------------------------------------------- line 20
write_bytes_L20 ==
    /\ pc = "L20"
    /\ IF disk_io_counters.isNone
         THEN /\ Raise("AttributeError", 20)
              /\ UNCHANGED disk_write_bytes
         ELSE /\ disk_write_bytes' = disk_io_counters.write_bytes
              /\ pc' = NextLine(pc)
              /\ UNCHANGED <<exitCode, stderr, stdout>>
    /\ UNCHANGED <<host, changes, disk_io_counters, disk_read_bytes, stack, record,
                   serialized, calls, memSeen, diskSeen>>

\* ---------------------------------------------------------------- line 23
\* A status computed from a threshold on the CPU utilisation.
StatusByThreshold == IF host.cpu >= 100 THEN "unhealthy" ELSE "healthy"

StatusLiteral == "healthy"

status_L23 ==
    /\ pc = "L23"
    /\ stack' = Append(stack, StrEntry("status", StatusLiteral))
    /\ pc' = NextLine(pc)
    /\ UNCHANGED <<host, changes, disk_io_counters, disk_read_bytes, disk_write_bytes,
                   record, serialized, stdout, stderr, exitCode, calls, memSeen, diskSeen>>

\* ---------------------------------------------------------------- line 24
\* psutil.cpu_percent(interval=1) blocks for the interval and returns the
\* utilisation the host shows when the window closes.
psutil_cpu_percent ==
    /\ pc = "L24"
    /\ \E result \in {"ok", "psutil.AccessDenied"} :
         /\ calls' = Append(calls, Call("cpu_percent", 24, result))
         /\ IF result = "ok"
              THEN /\ stack' = Append(stack, FloatEntry("cpu_usage", host.cpu))
                   /\ pc' = NextLine(pc)
                   /\ UNCHANGED <<exitCode, stderr, stdout>>
              ELSE /\ Raise(result, 24)
                   /\ UNCHANGED stack
    /\ UNCHANGED <<host, changes, disk_io_counters, disk_read_bytes, disk_write_bytes,
                   record, serialized, memSeen, diskSeen>>

\* ---------------------------------------------------------------- lines 25-28
\* The attribute of the svmem result that the expression for `key` reads.
\* memory_used reading .available.
MemAttrSwapped(m, key) ==
    CASE key = "memory_total"     -> IntEntry(key, m.total)
      [] key = "memory_available" -> IntEntry(key, m.available)
      [] key = "memory_used"      -> IntEntry(key, m.available)
      [] key = "memory_percent"   -> FloatEntry(key, m.percent)

MemAttr(m, key) ==
    CASE key = "memory_total"     -> IntEntry(key, m.total)
      [] key = "memory_available" -> IntEntry(key, m.available)
      [] key = "memory_used"      -> IntEntry(key, m.used)
      [] key = "memory_percent"   -> FloatEntry(key, m.percent)

psutil_virtual_memory(p, line, key) ==
    /\ pc = p
    /\ \E result \in {"ok", "psutil.AccessDenied"} :
         /\ calls' = Append(calls, Call("virtual_memory", line, result))
         /\ IF result = "ok"
              THEN /\ memSeen' = Append(memSeen, host.mem)
                   /\ stack' = Append(stack, MemAttr(host.mem, key))
                   /\ pc' = NextLine(pc)
                   /\ UNCHANGED <<exitCode, stderr, stdout>>
              ELSE /\ Raise(result, line)
                   /\ UNCHANGED <<stack, memSeen>>
    /\ UNCHANGED <<host, changes, disk_io_counters, disk_read_bytes, disk_write_bytes,
                   record, serialized, diskSeen>>

memory_total_L25 == psutil_virtual_memory("L25", 25, "memory_total")

memory_available_L26 == psutil_virtual_memory("L26", 26, "memory_available")

memory_used_L27 == psutil_virtual_memory("L27", 27, "memory_used")

memory_percent_L28 == psutil_virtual_memory("L28", 28, "memory_percent")

\* ---------------------------------------------------------------- lines 29-32
\* The attribute of the sdiskusage result that the expression for `key` reads.
DiskAttr(d, key) ==
    CASE key = "disk_total"   -> IntEntry(key, d.total)
      [] key = "disk_used"    -> IntEntry(key, d.used)
      [] key = "disk_free"    -> IntEntry(key, d.free)
      [] key = "disk_percent" -> FloatEntry(key, d.percent)

psutil_disk_usage(p, line, key) ==
    /\ pc = p
    /\ \E result \in {"ok", "psutil.AccessDenied", "FileNotFoundError"} :
         /\ calls' = Append(calls, Call("disk_usage", line, result))
         /\ IF result = "ok"
              THEN /\ diskSeen' = Append(diskSeen, host.disk)
                   /\ stack' = Append(stack, DiskAttr(host.disk, key))
                   /\ pc' = NextLine(pc)
                   /\ UNCHANGED <<exitCode, stderr, stdout>>
              ELSE /\ Raise(result, line)
                   /\ UNCHANGED <<stack, diskSeen>>
    /\ UNCHANGED <<host, changes, disk_io_counters, disk_read_bytes, disk_write_bytes,
                   record, serialized, memSeen>>

disk_total_L29 == psutil_disk_usage("L29", 29, "disk_total")

disk_used_L30 == psutil_disk_usage("L30", 30, "disk_used")

disk_free_L31 == psutil_disk_usage("L31", 31, "disk_free")

disk_percent_L32 == psutil_disk_usage("L32", 32, "disk_percent")

\* ---------------------------------------------------------------- lines 33-34
disk_read_bytes_L33 ==
    /\ pc = "L33"
    /\ stack' = Append(stack, IntEntry("disk_read_bytes", disk_read_bytes))
    /\ pc' = NextLine(pc)
    /\ UNCHANGED <<host, changes, disk_io_counters, disk_read_bytes, disk_write_bytes,
                   record, serialized, stdout, stderr, exitCode, calls, memSeen, diskSeen>>

disk_write_bytes_L34 ==
    /\ pc = "L34"
    /\ stack' = Append(stack, IntEntry("disk_write_bytes", disk_write_bytes))
    /\ pc' = NextLine(pc)
    /\ UNCHANGED <<host, changes, disk_io_counters, disk_read_bytes, disk_write_bytes,
                   record, serialized, stdout, stderr, exitCode, calls, memSeen, diskSeen>>

\* ---------------------------------------------------------------- lines 22, 35
\* The dict display builds the dict from the evaluated pairs, in the order written
\* (a Python dict keeps insertion order), and get_system_health returns it.
\* A key written twice keeps its first position and takes its last value.
BuildDict(pairs) ==
    LET first == {i \in 1..Len(pairs) : \A j \in 1..(i - 1) : pairs[j].key # pairs[i].key}
        nth(n) == CHOOSE i \in first : Cardinality({j \in first : j < i}) = n - 1
        last(k) == CHOOSE i \in 1..Len(pairs) :
                       /\ pairs[i].key = k
                       /\ \A j \in (i + 1)..Len(pairs) : pairs[j].key # k
    IN  [n \in 1..Cardinality(first) |-> pairs[last(pairs[nth(n)].key)]]

get_system_health_return ==
    /\ pc = "L22_return"
    /\ record' = BuildDict(stack)
    /\ stack' = <<>>
    /\ pc' = NextLine(pc)
    /\ UNCHANGED <<host, changes, disk_io_counters, disk_read_bytes, disk_write_bytes,
                   serialized, stdout, stderr, exitCode, calls, memSeen, diskSeen>>

\* ---------------------------------------------------------------- line 37
dumps_L37 ==
    /\ pc = "L37_dumps"
    /\ serialized' = json_dumps(record)
    /\ pc' = NextLine(pc)
    /\ UNCHANGED <<host, changes, disk_io_counters, disk_read_bytes, disk_write_bytes,
                   stack, record, stdout, stderr, exitCode, calls, memSeen, diskSeen>>

print_L37 ==
    /\ pc = "L37_print"
    /\ stdout' = print_write(stdout, serialized)
    /\ pc' = NextLine(pc)
    /\ exitCode' = 0
    /\ UNCHANGED <<host, changes, disk_io_counters, disk_read_bytes, disk_write_bytes,
                   stack, record, serialized, stderr, calls, memSeen, diskSeen>>

\* ---------------------------------------------------------------- the environment
\* The host's statistics move while the program runs; the cumulative I/O counters
\* only grow.
HostFrame ==
    UNCHANGED <<pc, disk_io_counters, disk_read_bytes, disk_write_bytes, stack, record,
                serialized, stdout, stderr, exitCode, calls, memSeen, diskSeen>>

HostCpuChange ==
    /\ pc # "exited"
    /\ changes < MaxChanges
    /\ \E c \in CpuSamples \ {host.cpu} : host' = [host EXCEPT !.cpu = c]
    /\ changes' = changes + 1
    /\ HostFrame

HostMemChange ==
    /\ pc # "exited"
    /\ changes < MaxChanges
    /\ \E m \in MemSnapshots \ {host.mem} : host' = [host EXCEPT !.mem = m]
    /\ changes' = changes + 1
    /\ HostFrame

HostDiskChange ==
    /\ pc # "exited"
    /\ changes < MaxChanges
    /\ \E d \in DiskSnapshots \ {host.disk} : host' = [host EXCEPT !.disk = d]
    /\ changes' = changes + 1
    /\ HostFrame

HostIoChange ==
    /\ pc # "exited"
    /\ changes < MaxChanges
    /\ \E io \in IoSnapshots :
         /\ io.read_bytes > host.io.read_bytes
         /\ io.write_bytes > host.io.write_bytes
         /\ host' = [host EXCEPT !.io = io]
    /\ changes' = changes + 1
    /\ HostFrame

\* ---------------------------------------------------------------- specification
Program ==
    \/ psutil_disk_io_counters
    \/ read_bytes_L19
    \/ write_bytes_L20
    \/ status_L23
    \/ psutil_cpu_percent
    \/ memory_total_L25
    \/ memory_available_L26
    \/ memory_used_L27
    \/ memory_percent_L28
    \/ disk_total_L29
    \/ disk_used_L30
    \/ disk_free_L31
    \/ disk_percent_L32
    \/ disk_read_bytes_L33
    \/ disk_write_bytes_L34
    \/ get_system_health_return
    \/ dumps_L37
    \/ print_L37

Environment ==
    \/ HostCpuChange
    \/ HostMemChange
    \/ HostDiskChange
    \/ HostIoChange

Next == Program \/ Environment

Spec == Init /\ [][Next]_vars

\* The interpreter is single-threaded and always executes its next statement.
FairSpec == Spec /\ WF_vars(Program)

\* ================================================================ properties
Range(f) == {f[i] : i \in DOMAIN f}

Keys(d) == [i \in 1..Len(d) |-> d[i].key]

\* The entry of key k in a sequence of entries or of serialized members.
Item(d, k) == d[CHOOSE i \in 1..Len(d) : d[i].key = k]

Has(d, k) == \E i \in 1..Len(d) : d[i].key = k

AnyFailed == \E i \in 1..Len(calls) : calls[i].result # "ok"

Succeeded == pc = "exited" /\ exitCode = 0

Failed == pc = "exited" /\ exitCode # 0

\* What the first write to standard output holds.
EmittedMembers == stdout[1].text.members

\* The field order of the record's table.
FieldOrder ==
    <<"status", "cpu_usage", "memory_total", "memory_available", "memory_used",
      "memory_percent", "disk_total", "disk_used", "disk_free", "disk_percent",
      "disk_read_bytes", "disk_write_bytes">>

PercentFields == {"cpu_usage", "memory_percent", "disk_percent"}

ByteFields ==
    {"memory_total", "memory_available", "memory_used", "disk_total", "disk_used",
     "disk_free", "disk_read_bytes", "disk_write_bytes"}

\* C1: when a query fails, at whichever point of the sequence, nothing (no full or
\* partial record) is on standard output, the exit code is non-zero, the failing
\* query is the last one issued and is issued once (no retry, no later query).
C1_AllOrNothing ==
    AnyFailed =>
        /\ stdout = <<>>
        /\ record = <<>>
        /\ serialized = <<>>
        /\ pc = "exited" \/ (pc = "L19" /\ disk_io_counters.isNone)
        /\ pc = "exited" => exitCode # 0 /\ exitCode # -1
        /\ \A i \in 1..Len(calls) : calls[i].result # "ok" => i = Len(calls)
        /\ \A i, j \in 1..Len(calls) : calls[i].line = calls[j].line => i = j

\* The last query of the sequence (disk_usage at line 32) failed after nine
\* successful ones.
C1_Witness ==
    /\ Failed
    /\ Len(calls) = 10
    /\ calls[10].result = "FileNotFoundError"
    /\ Len(stack) = 9
    /\ stdout = <<>>

\* C2: against a static source (no change of the host during the run) on which all
\* queries succeed, the eleven measured fields of the emitted record are the values
\* the source returned, with their types, and status is "healthy".
C2_Verbatim ==
    (Succeeded /\ changes = 0) =>
        /\ Len(stdout) = 1
        /\ Item(EmittedMembers, "cpu_usage").num = host.cpu
        /\ Item(EmittedMembers, "memory_total").num = host.mem.total
        /\ Item(EmittedMembers, "memory_available").num = host.mem.available
        /\ Item(EmittedMembers, "memory_used").num = host.mem.used
        /\ Item(EmittedMembers, "memory_percent").num = host.mem.percent
        /\ Item(EmittedMembers, "disk_total").num = host.disk.total
        /\ Item(EmittedMembers, "disk_used").num = host.disk.used
        /\ Item(EmittedMembers, "disk_free").num = host.disk.free
        /\ Item(EmittedMembers, "disk_percent").num = host.disk.percent
        /\ Item(EmittedMembers, "disk_read_bytes").num = host.io.read_bytes
        /\ Item(EmittedMembers, "disk_write_bytes").num = host.io.write_bytes
        /\ \A k \in PercentFields : Item(EmittedMembers, k).kind = "float"
        /\ \A k \in ByteFields : Item(EmittedMembers, k).kind = "int"
        /\ Item(EmittedMembers, "status").str = "healthy"
        /\ Item(EmittedMembers, "status").quoted

\* A successful run against a static source whose used and available memory differ.
C2_Witness ==
    /\ Succeeded
    /\ changes = 0
    /\ host.mem.used # host.mem.available
    /\ Item(EmittedMembers, "memory_used").num = 32

\* C3: every record the program holds or emits (the pairs being evaluated, the
\* returned dict, the serialized text, the output) has status "healthy", whatever
\* the measured values.
C3_StatusHealthy ==
    /\ \A e \in Range(stack) \cup Range(record) :
           e.key = "status" => e.kind = "str" /\ e.str = "healthy"
    /\ record # <<>> => Has(record, "status")
    /\ serialized # <<>> => Item(serialized.members, "status").str = "healthy"
    /\ \A w \in Range(stdout) : Item(w.text.members, "status").str = "healthy"

\* A record emitted with CPU, memory and disk all at 100%.
C3_Witness ==
    /\ stdout # <<>>
    /\ Item(EmittedMembers, "cpu_usage").num = 100
    /\ Item(EmittedMembers, "memory_percent").num = 100
    /\ Item(EmittedMembers, "disk_percent").num = 100
    /\ Item(EmittedMembers, "status").str = "healthy"

\* C4: an emitted record has exactly the twelve fields, serialized in the table's
\* order, every percentage in [0,100] and every byte count >= 0.
C4_TwelveFields ==
    stdout # <<>> =>
        /\ Keys(record) = FieldOrder
        /\ Keys(EmittedMembers) = FieldOrder
        /\ \A i \in 1..Len(EmittedMembers) :
             LET m == EmittedMembers[i]
             IN  /\ m.key \in PercentFields => m.num >= 0 /\ m.num <= 100
                 /\ m.key \in ByteFields => m.num >= 0
                 /\ m.comma = (i < Len(EmittedMembers))
                 /\ m.indent = 4

\* A record of twelve members was emitted after the host changed during collection.
C4_Witness ==
    /\ stdout # <<>>
    /\ Len(EmittedMembers) = 12
    /\ changes > 0
    /\ EmittedMembers[12].key = "disk_write_bytes"

\* The metric category the source text of a line of get_system_health names.
CategoryOfLine(line) ==
    CASE line \in {18, 19, 20} -> "io"
      [] line = 24 -> "cpu"
      [] line \in 25..28 -> "memory"
      [] line \in 29..32 -> "disk"
      [] OTHER -> "none"

CategoryOfQuery(q) ==
    CASE q = "disk_io_counters" -> "io"
      [] q = "cpu_percent" -> "cpu"
      [] q = "virtual_memory" -> "memory"
      [] q = "disk_usage" -> "disk"

\* C5: on a collection failure exactly one diagnostic is on standard error, and the
\* frame of get_system_health it shows is a line of the failing query's category
\* (CPU, memory, disk or I/O counters) and of no other.
C5_DiagnosticNamesCategory ==
    Failed =>
        /\ Len(stderr) = 1
        /\ AnyFailed
        /\ LET frames == stderr[1].frames
               failing == calls[Len(calls)].query
           IN  /\ CategoryOfLine(frames[Len(frames)]) = CategoryOfQuery(failing)
               /\ \A i \in 1..Len(frames) :
                    CategoryOfLine(frames[i]) \in {"none", CategoryOfQuery(failing)}

\* A memory query failed and the diagnostic shows a memory line.
C5_Witness ==
    /\ Failed
    /\ calls[Len(calls)].query = "virtual_memory"
    /\ stderr[1].frames[2] = 27

\* The error kind of the taxonomy an exception of the run belongs to.
ErrorKind(exc) ==
    CASE exc = "psutil.AccessDenied" -> "MetricsUnavailableError"
      [] exc = "FileNotFoundError" -> "FilesystemNotFoundError"
      [] OTHER -> exc

\* C6: every failure of get_system_health is a MetricsUnavailableError or a
\* FilesystemNotFoundError, the case of no I/O counters included.
C6_TwoErrorKinds ==
    Failed =>
        \A d \in Range(stderr) :
            ErrorKind(d.exc) \in {"MetricsUnavailableError", "FilesystemNotFoundError"}

QueryRank(q) ==
    CASE q = "cpu_percent" -> 1
      [] q = "virtual_memory" -> 2
      [] q = "disk_usage" -> 3
      [] q = "disk_io_counters" -> 4

\* C7 as stated: the queries are issued in the order CPU sample, virtual memory,
\* root filesystem usage, I/O counters; the I/O counters are never read before the
\* CPU sample has completed.
C7_SpecOrder ==
    /\ \A i, j \in 1..Len(calls) :
           i < j => QueryRank(calls[i].query) <= QueryRank(calls[j].query)
    /\ \A i \in 1..Len(calls) :
           calls[i].query = "disk_io_counters" =>
               \E j \in 1..(i - 1) : calls[j].query = "cpu_percent"

CodeOrder ==
    << <<"disk_io_counters", 18>>, <<"cpu_percent", 24>>,
       <<"virtual_memory", 25>>, <<"virtual_memory", 26>>,
       <<"virtual_memory", 27>>, <<"virtual_memory", 28>>,
       <<"disk_usage", 29>>, <<"disk_usage", 30>>,
       <<"disk_usage", 31>>, <<"disk_usage", 32>> >>

\* C7 amended: the queries are issued in the order I/O counters, CPU sample, four
\* virtual-memory queries, four root-filesystem usage queries; the CPU sample never
\* starts before the I/O counters query has returned, and the record is assembled
\* only after all ten queries have completed.
C7_CodeOrder ==
    /\ Len(calls) <= Len(CodeOrder)
    /\ \A i \in 1..Len(calls) : <<calls[i].query, calls[i].line>> = CodeOrder[i]
    /\ record # <<>> =>
           /\ Len(calls) = Len(CodeOrder)
           /\ \A i \in 1..Len(calls) : calls[i].result = "ok"

\* The record was assembled after the ten queries.
C7_Witness ==
    /\ record # <<>>
    /\ pc = "L37_dumps"
    /\ Len(calls) = 10
    /\ calls[1].query = "disk_io_counters"
    /\ calls[2].query = "cpu_percent"

\* C8: every run ends, and a run in which all queries succeeded ends with exit code
\* 0 after one write of the serialized record followed by a newline; the ten query
\* sites ran once each and nothing is on standard error.
C8_OneCycle ==
    /\ <>(pc = "exited")
    /\ []((pc = "exited" /\ ~AnyFailed) =>
            /\ exitCode = 0
            /\ Len(stdout) = 1
            /\ stdout[1].text = json_dumps(record)
            /\ stdout[1].end = "\n"
            /\ stderr = <<>>
            /\ Len(calls) = 10
            /\ \A i, j \in 1..Len(calls) : calls[i].line = calls[j].line => i = j)
    /\ [][pc = "exited" => UNCHANGED <<stdout, calls, exitCode>>]_vars

\* A run ended with exit code 0 and one write.
C8_Witness ==
    /\ pc = "exited"
    /\ ~AnyFailed
    /\ exitCode = 0
    /\ Len(stdout) = 1
    /\ stdout[1].end = "\n"

\* C9: no step of the program changes the host's CPU, memory, disk or I/O-counter
\* state, and the record is not modified once get_system_health has returned it;
\* a step of the program changes only its own locals and the standard streams.
C9_ReadOnly ==
    [][/\ pc' # pc => host' = host /\ changes' = changes
       /\ record # <<>> => record' = record]_vars

\* A successful run during which the host was changed (by the environment).
C9_Witness ==
    /\ Succeeded
    /\ changes = MaxChanges
    /\ record # <<>>
    /\ stdout[1].text = json_dumps(record)

\* C10: in every record the four memory fields are the values of one single
\* virtual_memory() result and the four disk fields the values of one single
\* disk_usage('/') result.
C10_SnapshotConsistency ==
    record # <<>> =>
        /\ \E m \in Range(memSeen) :
               /\ Item(record, "memory_total").num = m.total
               /\ Item(record, "memory_available").num = m.available
               /\ Item(record, "memory_used").num = m.used
               /\ Item(record, "memory_percent").num = m.percent
        /\ \E d \in Range(diskSeen) :
               /\ Item(record, "disk_total").num = d.total
               /\ Item(record, "disk_used").num = d.used
               /\ Item(record, "disk_free").num = d.free
               /\ Item(record, "disk_percent").num = d.percent

====
